---- MODULE Spec2Model ----
(***************************************************************************)
(* Model of send_metrics.py: one run of main() samples the clock, reads    *)
(* the credential cache file, loads the configuration, and either          *)
(* publishes with the cached record or federates against Cognito, saves    *)
(* the fresh record and publishes with it.                                 *)
(*                                                                         *)
(* Time is a natural number.  A datetime is [wall, aware, off]: the wall   *)
(* clock reading, whether it carries a UTC offset, and that offset; its    *)
(* instant is wall - off.  A JSON value is [kind, s, wall, off]; a string  *)
(* that spells an ISO-8601 timestamp has kind "iso" (with offset) or       *)
(* "iso_naive" (without), any other string has kind "str".                 *)
(***************************************************************************)
EXTENDS Integers, Sequences, FiniteSets, TLC

\* ------------------------------------------------------------------ bounds
MaxTime == 3        \* the clock runs over 0..MaxTime
MaxRuns == 2        \* runs of main() per process
Lifetime == 2       \* validity of a record the identity backend issues

\* --------------------------------------------------------------- constants
ACCESS_KEY_ID == "AccessKeyId"
SECRET_KEY == "SecretKey"
SESSION_TOKEN == "SessionToken"
EXPIRATION == "Expiration"
KEY_AUTH_RESULTS == "AuthenticationResult"
KEY_ID_TOKEN == "IdToken"
KEY_IDENTITY_ID == "IdentityId"
KEY_CREDENTIALS == "Credentials"
COGNITO_PROVIDER == "cognito-idp.us-west-2.amazonaws.com/"
UNIT_PERCENT == "Percent"
metric_name_disk_usage == "DiskUsage"

\* the order in which get_cognito_credentials builds its result dictionary
CredKeys == <<ACCESS_KEY_ID, SECRET_KEY, SESSION_TOKEN, EXPIRATION>>
CredKeySet == {CredKeys[i] : i \in 1..Len(CredKeys)}

\* ------------------------------------------------------------- JSON values
StrV(text) == [kind |-> "str", s |-> text, wall |-> 0, off |-> 0]
NumV(n) == [kind |-> "num", s |-> "", wall |-> n, off |-> 0]
IsoV(w, o) == [kind |-> "iso", s |-> "", wall |-> w, off |-> o]
IsoNaiveV(w) == [kind |-> "iso_naive", s |-> "", wall |-> w, off |-> 0]

\* ---------------------------------------------------------------- datetime
Aware(w, o) == [wall |-> w, aware |-> TRUE, off |-> o]
Naive(w) == [wall |-> w, aware |-> FALSE, off |-> 0]
Instant(dt) == dt.wall - dt.off

\* results of operations that may raise: exc = "none" means a normal return
Ok(v) == [exc |-> "none", val |-> v]
Raise(class) == [exc |-> class, val |-> 0]

\* datetime.now(timezone.utc) at clock reading t
NowUtc(t) == Aware(t, 0)

\* the offset is kept: no conversion to UTC
KeepsOffset(dt) == dt

\* dt.astimezone(timezone.utc) of an aware datetime
AsTimezoneUtc(dt) == Aware(dt.wall - dt.off, 0)

\* dt.isoformat(): the string that spells dt
IsoFormat(dt) == IF dt.aware THEN IsoV(dt.wall, dt.off) ELSE IsoNaiveV(dt.wall)

\* datetime.fromisoformat(v)
FromIsoFormat(v) ==
    CASE v.kind = "iso" -> Ok(Aware(v.wall, v.off))
      [] v.kind = "iso_naive" -> Ok(Naive(v.wall))
      [] v.kind = "str" -> Raise("ValueError")
      [] OTHER -> Raise("TypeError")

\* a <= b in place of a < b
DatetimeLessOrEqual(a, b) ==
    IF a.aware # b.aware THEN [exc |-> "TypeError", val |-> FALSE]
    ELSE [exc |-> "none", val |-> (a.wall - a.off) <= (b.wall - b.off)]

\* the comparison reversed: a > b in place of a < b
DatetimeGreater(a, b) ==
    IF a.aware # b.aware THEN [exc |-> "TypeError", val |-> FALSE]
    ELSE [exc |-> "none", val |-> (a.wall - a.off) > (b.wall - b.off)]

\* a < b on datetimes: naive against aware cannot be compared
DatetimeLess(a, b) ==
    IF a.aware # b.aware THEN Raise("TypeError")
    ELSE Ok(Instant(a) < Instant(b))

\* ------------------------------------------------------------ dictionaries
EmptyDict == [k \in {} |-> StrV("")]
PyNone == [py |-> "None", d |-> EmptyDict]
PyDict(d) == [py |-> "dict", d |-> d]
PyOther(type) == [py |-> type, d |-> EmptyDict]

\* ------------------------------------------------------------ JSON on disk
(* The text of a file is a sequence of tokens: an opening brace, one token  *)
(* per key/value pair, a closing brace; or a single token for a JSON value  *)
(* that is no object.                                                       *)
TokOpen == [tok |-> "{", k |-> "", v |-> StrV("")]
TokClose == [tok |-> "}", k |-> "", v |-> StrV("")]
TokPair(key, val) == [tok |-> "pair", k |-> key, v |-> val]
TokValue(type) == [tok |-> type, k |-> "", v |-> StrV("")]

RECURSIVE DumpPairs(_, _, _)
DumpPairs(d, order, i) ==
    IF i > Len(order) THEN <<>>
    ELSE (IF order[i] \in DOMAIN d THEN <<TokPair(order[i], d[order[i]])>> ELSE <<>>)
         \o DumpPairs(d, order, i + 1)

\* json.dump(creds, f, ensure_ascii=False, indent=4): the text written
JsonDump(d) == <<TokOpen>> \o DumpPairs(d, CredKeys, 1) \o <<TokClose>>

RECURSIVE ParsePairs(_, _, _)
ParsePairs(text, i, acc) ==
    IF i >= Len(text) THEN acc
    ELSE ParsePairs(text, i + 1,
            [k \in (DOMAIN acc) \cup {text[i].k} |->
                IF k = text[i].k THEN text[i].v ELSE acc[k]])

\* json.load(f): the value the text spells, or JSONDecodeError
JsonLoad(text) ==
    IF Len(text) = 0 THEN Raise("JSONDecodeError")
    ELSE IF Len(text) = 1 /\ text[1].tok \notin {"{", "}", "pair"}
         THEN Ok(PyOther(text[1].tok))
    ELSE IF /\ Len(text) >= 2
            /\ text[1].tok = "{"
            /\ text[Len(text)].tok = "}"
            /\ \A i \in 2..(Len(text) - 1) : text[i].tok = "pair"
         THEN Ok(PyDict(ParsePairs(text, 2, EmptyDict)))
    ELSE Raise("JSONDecodeError")

\* ----------------------------------------------------- the cache file
NoFile == [exists |-> FALSE, text |-> <<>>]
FileWith(text) == [exists |-> TRUE, text |-> text]

\* the exceptions load_credentials catches
LoadCaught == {"FileNotFoundError", "JSONDecodeError", "KeyError", "ValueError"}

\* the body of the try block of load_credentials
LoadBody(f, now_utc) ==
    IF ~f.exists THEN Raise("FileNotFoundError")
    ELSE LET j == JsonLoad(f.text) IN
      IF j.exc # "none" THEN Raise(j.exc)
      ELSE IF j.val.py # "dict" THEN Raise("TypeError")
      ELSE IF EXPIRATION \notin DOMAIN j.val.d THEN Raise("KeyError")
      ELSE LET dt == FromIsoFormat(j.val.d[EXPIRATION]) IN
        IF dt.exc # "none" THEN Raise(dt.exc)
        ELSE LET lt == DatetimeLess(now_utc, dt.val) IN
          IF lt.exc # "none" THEN Raise(lt.exc)
          ELSE IF lt.val THEN Ok(j.val) ELSE Ok(PyNone)

\* load_credentials(now_utc) on file f
LoadCredentials(f, now_utc) ==
    LET r == LoadBody(f, now_utc) IN
    IF r.exc = "none" THEN r
    ELSE IF r.exc \in LoadCaught THEN Ok(PyNone)
    ELSE r

\* ------------------------------------------------------- exceptions raised
NoErr == [class |-> "none", msg |-> <<>>]
Exc(class, msg) == [class |-> class, msg |-> msg]

\* str(e) of what the SDK raises when operation op is refused
ClientErrorText(op) == <<"An error occurred when calling the ", op, " operation">>
\* str(e) of an exception that names no operation (MemoryError() has empty text)
GenericText == <<"">>
\* str(KeyError(k))
KeyErrorText(k) == <<"'", k, "'">>
\* the texts a failing SDK call op may carry
SdkFailures(op) == {ClientErrorText(op), GenericText}

CognitoCredentialError(text) ==
    Exc("CognitoCredentialError", <<"Failed to get Cognito credentials: ">> \o text)
SaveCredentialsError(text) ==
    Exc("SaveCredentialsError", <<"Failed to save new credentials: ">> \o text)
CreateCognitoclientError(text) ==
    Exc("CreateCognitoclientError", <<"Failed to create CloudWatch client: ">> \o text)
GetDiskUsageError(text) ==
    Exc("GetDiskUsageError", <<"Failed to retrieve disk usage: ">> \o text)
SendMetricError(text) ==
    Exc("SendMetricError", <<"Failed to send metric: ">> \o text)

\* ------------------------------------------------------------ configuration
\* Config.__init__ reads these attributes, in this order, from the environment
ConfigAttrs == <<"email", "password", "user_pool_id", "identity_pool_id",
                 "client_id", "region", "cw_namespace", "vol">>
AttrSet == {ConfigAttrs[i] : i \in 1..Len(ConfigAttrs)}
EnvName(attr) ==
    CASE attr = "email" -> "EMAIL"
      [] attr = "password" -> "PASSWORD"
      [] attr = "user_pool_id" -> "USER_POOL_ID"
      [] attr = "identity_pool_id" -> "IDENTITY_POOL_ID"
      [] attr = "client_id" -> "CLIENT_ID"
      [] attr = "region" -> "REGION"
      [] attr = "cw_namespace" -> "CW_NAMESPACE"
      [] attr = "vol" -> "VOL"
EnvNames == {EnvName(a) : a \in AttrSet}

\* the environments a run may find: every setting present, or one absent
FullEnv == [n \in EnvNames |-> "val-" \o n]
Envs == {FullEnv} \cup {[n \in EnvNames \ {m} |-> FullEnv[n]] : m \in EnvNames}

\* os.getenv(name): "" stands for None
Getenv(env, name) == IF name \in DOMAIN env THEN env[name] ELSE ""
NoConfig == [a \in AttrSet |-> ""]

RECURSIVE MissingFrom(_, _)
MissingFrom(cfg, i) ==
    IF i > Len(ConfigAttrs) THEN <<>>
    ELSE (IF cfg[ConfigAttrs[i]] = "" THEN <<ConfigAttrs[i]>> ELSE <<>>)
         \o MissingFrom(cfg, i + 1)

\* Config(): the object built, or ValueError naming the absent attributes
ConfigInit(env) ==
    LET cfg == [a \in AttrSet |-> Getenv(env, EnvName(a))]
        missing == MissingFrom(cfg, 1)
    IN IF Len(missing) > 0
       THEN [exc |-> "ValueError", val |-> NoConfig, missing |-> missing]
       ELSE [exc |-> "none", val |-> cfg, missing |-> <<>>]

\* ------------------------------------------------------------------- state
Procs == {"r1", "r2"}       \* processes that may run main()
SeqProcs == {"r1"}          \* the single scheduled process

VARIABLES
    file,       \* the credential cache file creds.json
    clock,      \* the current instant
    pc,         \* where each process is in main()
    runs,       \* runs each process has started
    now_utc,    \* main: the instant sampled at the start of the run
    creds,      \* main: the record in hand (None, or a dictionary)
    config,     \* main: the Config object
    err,        \* the exception that ended the run
    calls,      \* the calls the run has made to the file system and the backends
    fed,        \* get_cognito_credentials: id_token, identity_id, creds
    put,        \* put_metrics: its arguments, the sample and the metric record
    sent,       \* the submissions the metrics backend accepted from the run
    issued      \* the credentials the identity backend has handed out, in order

vars == <<file, clock, pc, runs, now_utc, creds, config, err, calls, fed, put, sent,
          issued>>

NoFed == [id_token |-> "", identity_id |-> "", creds |-> EmptyDict]
NoMetric == [MetricName |-> "", Timestamp |-> NowUtc(0), Value |-> 0, Unit |-> ""]
NoPut == [aws_access_key_id |-> StrV(""), aws_secret_access_key |-> StrV(""),
          aws_session_token |-> StrV(""), cw_namespace |-> "", region_name |-> "",
          metric_data_value |-> 0, metric_data |-> NoMetric]

Call(op, a) == [op |-> op, a |-> a]

\* ------------------------------------------------- what the world may hold
Offsets == {0, 1}           \* UTC offsets a timestamp may carry
StoredExpiries == {1, 2}    \* expiration instants of records found on disk
DiskSamples == {57, 100}    \* psutil.disk_usage(vol).percent

StoredRecord(keys, expv) ==
    [k \in keys |->
        CASE k = ACCESS_KEY_ID -> StrV("AK0")
          [] k = SECRET_KEY -> StrV("SK0")
          [] k = SESSION_TOKEN -> StrV("ST0")
          [] k = EXPIRATION -> expv]

\* a stored record with all four fields, expiring at instant e, written with offset o
WellFormed(e, o) == StoredRecord(CredKeySet, IsoV(e + o, o))
WellFormedFiles == {FileWith(JsonDump(WellFormed(e, o))) : e \in StoredExpiries, o \in Offsets}

\* files that hold no usable record
CorruptFiles ==
    { FileWith(<<>>),
      FileWith(<<TokOpen, TokPair(ACCESS_KEY_ID, StrV("AK0"))>>),
      FileWith(<<TokValue("list")>>),
      FileWith(JsonDump(StoredRecord(CredKeySet \ {EXPIRATION}, StrV("")))),
      FileWith(JsonDump(StoredRecord(CredKeySet, NumV(2)))),
      FileWith(JsonDump(StoredRecord(CredKeySet, StrV("tomorrow")))),
      FileWith(JsonDump(StoredRecord(CredKeySet, IsoNaiveV(2)))),
      FileWith(JsonDump(WellFormed(2, 0)) \o <<TokValue("list")>>) }
    \cup { FileWith(JsonDump(StoredRecord(CredKeySet \ {k}, IsoV(2, 0)))) :
             k \in CredKeySet \ {EXPIRATION} }

InitFiles == {NoFile} \cup WellFormedFiles \cup CorruptFiles

\* d[k] on a dictionary
Index(d, k) == IF k \in DOMAIN d THEN Ok(d[k]) ELSE [exc |-> "KeyError", val |-> k]

\* responses of initiate_auth
AuthResponses ==
    { (KEY_AUTH_RESULTS :> (KEY_ID_TOKEN :> "T1")),
      (KEY_AUTH_RESULTS :> ("AccessToken" :> "A1")),
      ("ChallengeName" :> ("NEW_PASSWORD_REQUIRED" :> "")) }
\* responses of get_id
IdResponses == { (KEY_IDENTITY_ID :> "ID1"), ("ResponseMetadata" :> "") }
\* the record the identity backend issues at instant t, stamped with offset o
Issued(t, o) ==
    (ACCESS_KEY_ID :> "AK1") @@ (SECRET_KEY :> "SK1") @@ (SESSION_TOKEN :> "ST1")
    @@ (EXPIRATION :> Aware(t + Lifetime + o, o))
Without(d, k) == [x \in (DOMAIN d) \ {k} |-> d[x]]
\* responses of get_credentials_for_identity at instant t
CredResponses(t) ==
    { (KEY_CREDENTIALS :> Issued(t, o)) : o \in Offsets }
    \cup { (KEY_CREDENTIALS :> Without(Issued(t, 0), EXPIRATION)),
           (KEY_CREDENTIALS :> Without(Issued(t, 0), SESSION_TOKEN)),
           ("ResponseMetadata" :> EmptyDict) }

\* ------------------------------------------------------------------- Init
Init ==
    /\ file \in InitFiles
    /\ clock = 0
    /\ pc = [p \in Procs |-> "idle"]
    /\ runs = [p \in Procs |-> 0]
    /\ now_utc = [p \in Procs |-> NowUtc(0)]
    /\ creds = [p \in Procs |-> PyNone]
    /\ config = [p \in Procs |-> NoConfig]
    /\ err = [p \in Procs |-> NoErr]
    /\ calls = [p \in Procs |-> <<>>]
    /\ fed = [p \in Procs |-> NoFed]
    /\ put = [p \in Procs |-> NoPut]
    /\ sent = [p \in Procs |-> <<>>]
    /\ issued = <<>>

\* ---------------------------------------------------------------- actions
Goto(p, where) == pc' = [pc EXCEPT ![p] = where]
Fails(p, e) == pc' = [pc EXCEPT ![p] = "failed"] /\ err' = [err EXCEPT ![p] = e]
Logs(p, c) == calls' = [calls EXCEPT ![p] = Append(@, c)]

\* time passes
Tick ==
    /\ clock < MaxTime
    /\ clock' = clock + 1
    /\ UNCHANGED <<file, pc, runs, now_utc, creds, config, err, calls, fed, put, sent, issued>>

\* a process is started: main() samples the clock
StartRun(p) ==
    /\ pc[p] \in {"idle", "done", "failed"}
    /\ runs[p] < MaxRuns
    /\ runs' = [runs EXCEPT ![p] = @ + 1]
    /\ now_utc' = [now_utc EXCEPT ![p] = NowUtc(clock)]
    /\ creds' = [creds EXCEPT ![p] = PyNone]
    /\ config' = [config EXCEPT ![p] = NoConfig]
    /\ err' = [err EXCEPT ![p] = NoErr]
    /\ calls' = [calls EXCEPT ![p] = <<>>]
    /\ fed' = [fed EXCEPT ![p] = NoFed]
    /\ put' = [put EXCEPT ![p] = NoPut]
    /\ sent' = [sent EXCEPT ![p] = <<>>]
    /\ Goto(p, "load")
    /\ UNCHANGED <<file, clock, issued>>

\* creds = load_credentials(now_utc=now_utc)
Load(p) ==
    /\ pc[p] = "load"
    /\ Logs(p, Call("open_read", IF file.exists THEN <<"opened">> ELSE <<"FileNotFoundError">>))
    /\ LET r == LoadCredentials(file, now_utc[p]) IN
         IF r.exc = "none"
         THEN /\ creds' = [creds EXCEPT ![p] = r.val]
              /\ Goto(p, "config")
              /\ UNCHANGED err
         ELSE /\ Fails(p, Exc(r.exc, <<>>))
              /\ UNCHANGED creds
    /\ UNCHANGED <<file, clock, runs, now_utc, config, fed, put, sent, issued>>

\* config = Config()
LoadConfig(p) ==
    /\ pc[p] = "config"
    /\ \E env \in Envs :
         LET c == ConfigInit(env) IN
         IF c.exc = "none"
         THEN /\ config' = [config EXCEPT ![p] = c.val]
              /\ Goto(p, "branch")
              /\ UNCHANGED err
         ELSE /\ Fails(p, Exc(c.exc, <<"Missing environment variables: ">> \o c.missing))
              /\ UNCHANGED config
    /\ UNCHANGED <<file, clock, runs, now_utc, creds, calls, fed, put, sent, issued>>

\* the arguments main evaluates for put_metrics from the record c and the config
PutArgs(c, cfg) ==
    LET ak == Index(c, ACCESS_KEY_ID)
        sk == Index(c, SECRET_KEY)
        st == Index(c, SESSION_TOKEN)
    IN IF ak.exc # "none" THEN ak
       ELSE IF sk.exc # "none" THEN sk
       ELSE IF st.exc # "none" THEN st
       ELSE Ok([NoPut EXCEPT !.aws_access_key_id = ak.val,
                             !.aws_secret_access_key = sk.val,
                             !.aws_session_token = st.val,
                             !.cw_namespace = cfg["cw_namespace"],
                             !.region_name = cfg["region"]])

\* main calls put_metrics with the record c
CallPutMetrics(p, c) ==
    LET a == PutArgs(c, config[p]) IN
    IF a.exc = "none"
    THEN /\ put' = [put EXCEPT ![p] = a.val]
         /\ Goto(p, "put_client")
         /\ UNCHANGED err
    ELSE /\ Fails(p, Exc(a.exc, KeyErrorText(a.val)))
         /\ UNCHANGED put

\* if creds is not None: put_metrics(...) else: get_cognito_credentials(...)
Branch(p) ==
    /\ pc[p] = "branch"
    /\ IF creds[p].py # "None"
       THEN CallPutMetrics(p, creds[p].d)
       ELSE Goto(p, "fed_auth") /\ UNCHANGED <<err, put>>
    /\ UNCHANGED <<file, clock, runs, now_utc, creds, config, calls, fed, sent, issued>>

\* ---------------------------------------------- get_cognito_credentials
\* the failure is swallowed and the exchange goes on to get_id
FederationGoesOn(p, text) == pc' = [pc EXCEPT ![p] = "fed_id"] /\ UNCHANGED err

\* the failure is answered by starting the exchange again
FederationRetries(p, text) == pc' = [pc EXCEPT ![p] = "fed_auth"] /\ UNCHANGED err

\* the failure is swallowed and main goes on to save_credentials
FederationFailsIntoSave(p, text) == pc' = [pc EXCEPT ![p] = "save_open"] /\ UNCHANGED err

\* every exception inside get_cognito_credentials leaves as this one
FederationFails(p, text) == Fails(p, CognitoCredentialError(text))

\* resp[ct.KEY_AUTH_RESULTS][ct.KEY_ID_TOKEN]
IdTokenOf(resp) ==
    LET a == Index(resp, KEY_AUTH_RESULTS) IN
    IF a.exc # "none" THEN a ELSE Index(a.val, KEY_ID_TOKEN)

\* the login proof keyed by the identity pool in place of the user pool
LoginsByIdentityPool(cfg, id_token) ==
    <<COGNITO_PROVIDER, cfg["identity_pool_id"], id_token>>

\* Logins={ct.COGNITO_PROVIDER + user_pool_id: id_token}
Logins(cfg, id_token) == <<COGNITO_PROVIDER, cfg["user_pool_id"], id_token>>

\* the dictionary get_cognito_credentials returns from the Credentials it received
AssembleRecord(raw) ==
    LET ex == Index(raw, EXPIRATION) IN
    IF ex.exc # "none" THEN ex
    ELSE LET expiration_iso == IsoFormat(AsTimezoneUtc(ex.val))
             ak == Index(raw, ACCESS_KEY_ID)
             sk == Index(raw, SECRET_KEY)
             st == Index(raw, SESSION_TOKEN)
         IN IF ak.exc # "none" THEN ak
            ELSE IF sk.exc # "none" THEN sk
            ELSE IF st.exc # "none" THEN st
            ELSE Ok((ACCESS_KEY_ID :> StrV(ak.val)) @@ (SECRET_KEY :> StrV(sk.val))
                    @@ (SESSION_TOKEN :> StrV(st.val)) @@ (EXPIRATION :> expiration_iso))

\* idp = boto3.client(...); resp = idp.initiate_auth(...); id_token = resp[...][...]
FedAuth(p) ==
    /\ pc[p] = "fed_auth"
    /\ LET call == Call("initiate_auth",
                        <<config[p]["email"], config[p]["password"], config[p]["client_id"]>>)
       IN \/ /\ FederationFails(p, GenericText)     \* the client cannot be created
             /\ UNCHANGED <<calls, fed>>
          \/ \E text \in SdkFailures("InitiateAuth") :
               /\ Logs(p, call)
               /\ FederationFails(p, text)
               /\ UNCHANGED fed
          \/ \E resp \in AuthResponses :
               LET tok == IdTokenOf(resp) IN
               /\ Logs(p, call)
               /\ IF tok.exc = "none"
                  THEN /\ fed' = [fed EXCEPT ![p].id_token = tok.val]
                       /\ Goto(p, "fed_id")
                       /\ UNCHANGED err
                  ELSE /\ FederationFails(p, KeyErrorText(tok.val))
                       /\ UNCHANGED fed
    /\ UNCHANGED <<file, clock, runs, now_utc, creds, config, put, sent, issued>>

\* identity = boto3.client(...); identity_id = identity.get_id(...)[ct.KEY_IDENTITY_ID]
FedGetId(p) ==
    /\ pc[p] = "fed_id"
    /\ LET call == Call("get_id", <<config[p]["identity_pool_id"]>>
                                   \o Logins(config[p], fed[p].id_token))
       IN \/ /\ FederationFails(p, GenericText)     \* the client cannot be created
             /\ UNCHANGED <<calls, fed>>
          \/ \E text \in SdkFailures("GetId") :
               /\ Logs(p, call)
               /\ FederationFails(p, text)
               /\ UNCHANGED fed
          \/ \E resp \in IdResponses :
               LET id == Index(resp, KEY_IDENTITY_ID) IN
               /\ Logs(p, call)
               /\ IF id.exc = "none"
                  THEN /\ fed' = [fed EXCEPT ![p].identity_id = id.val]
                       /\ Goto(p, "fed_creds")
                       /\ UNCHANGED err
                  ELSE /\ FederationFails(p, KeyErrorText(id.val))
                       /\ UNCHANGED fed
    /\ UNCHANGED <<file, clock, runs, now_utc, creds, config, put, sent, issued>>

\* creds = identity.get_credentials_for_identity(...)[ct.KEY_CREDENTIALS]; return {...}
FedGetCreds(p) ==
    /\ pc[p] = "fed_creds"
    /\ LET call == Call("get_credentials_for_identity",
                        <<fed[p].identity_id>> \o Logins(config[p], fed[p].id_token))
       IN \/ \E text \in SdkFailures("GetCredentialsForIdentity") :
               /\ Logs(p, call)
               /\ FederationFails(p, text)
               /\ UNCHANGED <<fed, creds, issued>>
          \/ \E resp \in CredResponses(clock) :
               LET raw == Index(resp, KEY_CREDENTIALS)
                   rec == IF raw.exc = "none" THEN AssembleRecord(raw.val) ELSE raw
               IN
               /\ Logs(p, call)
               /\ fed' = [fed EXCEPT ![p].creds = IF raw.exc = "none" THEN raw.val ELSE @]
               /\ issued' = IF raw.exc = "none"
                            THEN Append(issued, [by |-> p, run |-> runs[p], creds |-> raw.val])
                            ELSE issued
               /\ IF rec.exc = "none"
                  THEN /\ creds' = [creds EXCEPT ![p] = PyDict(rec.val)]
                       /\ Goto(p, "save_open")
                       /\ UNCHANGED err
                  ELSE /\ FederationFails(p, KeyErrorText(rec.val))
                       /\ UNCHANGED creds
    /\ UNCHANGED <<file, clock, runs, now_utc, config, put, sent>>

\* ------------------------------------------------------- save_credentials
\* the failure is swallowed and main goes on to put_metrics
SaveSwallowed(p, text) == pc' = [pc EXCEPT ![p] = "put_client"] /\ UNCHANGED err

\* every exception inside save_credentials leaves as this one
SaveFails(p, text) == Fails(p, SaveCredentialsError(text))

\* the file is opened without being emptied
NotTruncated == FileWith(file.text)

\* what open(credentials_file, "w") leaves on disk
Truncated == FileWith(<<>>)

\* the first n tokens of a text
Prefix(text, n) == SubSeq(text, 1, n)

\* the text is added after what the file holds, as a file opened for appending
WriteAtEnd(old, text) == old \o text

\* f.write at the position of a file object opened with "w": from the start of
\* the file, over what another writer may have put there since the open
WriteAtStart(old, text) == text \o SubSeq(old, Len(text) + 1, Len(old))

\* with open(credentials_file, "w", encoding=encoding) as f:
SaveOpen(p) ==
    /\ pc[p] = "save_open"
    /\ \/ /\ SaveFails(p, <<"[Errno 13] Permission denied">>)
          /\ UNCHANGED <<file, calls>>
       \/ /\ file' = Truncated
          /\ Logs(p, Call("open_write", <<>>))
          /\ Goto(p, "save_write")
          /\ UNCHANGED err
    /\ UNCHANGED <<clock, runs, now_utc, creds, config, fed, put, sent, issued>>

\* put_metrics is called before the record is written: the write is left out
PublishesBeforeWrite(p) ==
    /\ pc[p] = "save_write"
    /\ file' = file
    /\ CallPutMetrics(p, creds[p].d)
    /\ UNCHANGED <<clock, runs, now_utc, creds, config, calls, fed, sent, issued>>

\* json.dump(creds, f, ensure_ascii=False, indent=4) writes from the start of the
\* file that open emptied,
\* the file is closed, and main goes on to put_metrics with the fresh record
SaveWrite(p) ==
    /\ pc[p] = "save_write"
    /\ LET text == JsonDump(creds[p].d) IN
       \/ \E n \in 0..(Len(text) - 1) :
             /\ file' = FileWith(WriteAtStart(file.text, Prefix(text, n)))
             /\ SaveFails(p, <<"[Errno 28] No space left on device">>)
             /\ UNCHANGED put
       \/ /\ file' = FileWith(WriteAtStart(file.text, text))
          /\ CallPutMetrics(p, creds[p].d)
    /\ UNCHANGED <<clock, runs, now_utc, creds, config, calls, fed, sent, issued>>

\* ------------------------------------------------------------ put_metrics
\* the sample reported as a fraction of one in place of a percentage
BuildMetricDataAsFraction(metric_name, value, unit, t) ==
    [MetricName |-> metric_name, Timestamp |-> NowUtc(t), Value |-> value \div 100,
     Unit |-> unit]

\* build_metric_data(metric_name, value, unit) at instant t
BuildMetricData(metric_name, value, unit, t) ==
    [MetricName |-> metric_name, Timestamp |-> NowUtc(t), Value |-> value, Unit |-> unit]

\* cw = boto3.client(ct.CLOUDWATCH, ...)
PutClient(p) ==
    /\ pc[p] = "put_client"
    /\ \/ Fails(p, CreateCognitoclientError(GenericText))
       \/ Goto(p, "collect") /\ UNCHANGED err
    /\ UNCHANGED <<file, clock, runs, now_utc, creds, config, calls, fed, put, sent, issued>>

\* metric_data_value = metric_collector(); metric_data = build_metric_data(...)
Collect(p) ==
    /\ pc[p] = "collect"
    /\ Logs(p, Call("disk_usage", <<config[p]["vol"]>>))
    /\ \/ /\ Fails(p, GetDiskUsageError(<<"[Errno 2] No such file or directory">>))
          /\ UNCHANGED put
       \/ \E percent \in DiskSamples :
            /\ put' = [put EXCEPT ![p].metric_data_value = percent,
                                     ![p].metric_data =
                          BuildMetricData(metric_name_disk_usage, percent, UNIT_PERCENT, clock)]
            /\ Goto(p, "submit")
            /\ UNCHANGED err
    /\ UNCHANGED <<file, clock, runs, now_utc, creds, config, fed, sent, issued>>

\* the request put_metric_data sends: namespace, records, and the keys that sign it
PutRequest(a) ==
    [Namespace |-> a.cw_namespace, MetricData |-> <<a.metric_data>>,
     AccessKeyId |-> a.aws_access_key_id, SecretKey |-> a.aws_secret_access_key,
     SessionToken |-> a.aws_session_token, Region |-> a.region_name]

\* the failure is swallowed and put_metrics returns
SubmitSwallowed(p, text) == pc' = [pc EXCEPT ![p] = "done"] /\ UNCHANGED err

\* except Exception as e: raise SendMetricError(...)
SubmitFails(p, text) == Fails(p, SendMetricError(text))

\* cw.put_metric_data(Namespace=cw_namespace, MetricData=[metric_data])
Submit(p) ==
    /\ pc[p] = "submit"
    /\ Logs(p, Call("put_metric_data", <<put[p].cw_namespace>>))
    /\ \/ /\ \E text \in SdkFailures("PutMetricData") : SubmitFails(p, text)
          /\ UNCHANGED sent
       \/ /\ sent' = [sent EXCEPT ![p] = Append(@, PutRequest(put[p]))]
          /\ Goto(p, "done")
          /\ UNCHANGED err
    /\ UNCHANGED <<file, clock, runs, now_utc, creds, config, fed, put, issued>>

\* ------------------------------------------------------------ specification
Step(p) ==
    \/ StartRun(p)
    \/ Load(p)
    \/ LoadConfig(p)
    \/ Branch(p)
    \/ FedAuth(p)
    \/ FedGetId(p)
    \/ FedGetCreds(p)
    \/ SaveOpen(p)
    \/ SaveWrite(p)
    \/ PutClient(p)
    \/ Collect(p)
    \/ Submit(p)

Next == Tick \/ \E p \in SeqProcs : Step(p)

Spec == Init /\ [][Next]_vars

\* two schedulers start main() on the same host and the same cache file: the
\* steps of the two processes interleave, each process being started once
ConcStart(p) == runs[p] = 0 /\ StartRun(p)

ConcStep(p) ==
    \/ ConcStart(p)
    \/ Load(p)
    \/ LoadConfig(p)
    \/ Branch(p)
    \/ FedAuth(p)
    \/ FedGetId(p)
    \/ FedGetCreds(p)
    \/ SaveOpen(p)
    \/ SaveWrite(p)
    \/ PutClient(p)
    \/ Collect(p)
    \/ Submit(p)

ConcNext == Tick \/ \E p \in Procs : ConcStep(p)

\* the two processes find the record of an earlier run, which expires at
\* instant 1: usable by a run started before, stale for a run started later
ConcFiles == {FileWith(JsonDump(WellFormed(1, 0)))}
ConcInit == Init /\ file \in ConcFiles

ConcSpec == ConcInit /\ [][ConcNext]_vars

\* ============================================================== properties
Ops(p) == {calls[p][i].op : i \in 1..Len(calls[p])}
CountOp(p, op) == Cardinality({i \in 1..Len(calls[p]) : calls[p][i].op = op})
FederationOps == {"initiate_auth", "get_id", "get_credentials_for_identity"}
PublishOps == {"disk_usage", "put_metric_data"}
InFederation == {"fed_auth", "fed_id", "fed_creds"}
InPutMetrics == {"put_client", "collect", "submit"}
Ended(p) == pc[p] \in {"done", "failed"}
\* the run has made no federation call: what it holds came from the cache file
FromCache(p) == Ops(p) \cap FederationOps = {}

\* the dictionary a file spells, if it spells one
ParsesToDict(f) ==
    /\ f.exists
    /\ JsonLoad(f.text).exc = "none"
    /\ JsonLoad(f.text).val.py = "dict"
RecordIn(f) == JsonLoad(f.text).val.d
\* four string fields, the expiration an ISO timestamp that carries its offset
IsWellFormed(d) ==
    /\ DOMAIN d = CredKeySet
    /\ \A k \in CredKeySet \ {EXPIRATION} : d[k].kind = "str"
    /\ d[EXPIRATION].kind = "iso"
HoldsWellFormed(f) == ParsesToDict(f) /\ IsWellFormed(RecordIn(f))
ExpiryOf(d) == d[EXPIRATION].wall - d[EXPIRATION].off
\* put_metrics was given exactly the three secrets of record d
GivenTo(a, d) ==
    /\ a.aws_access_key_id = d[ACCESS_KEY_ID]
    /\ a.aws_secret_access_key = d[SECRET_KEY]
    /\ a.aws_session_token = d[SESSION_TOKEN]

\* C1 (expiry boundary): with a well-formed record R on disk and T the instant
\* sampled at the start of the run, load_credentials returns R itself iff
\* T < R.Expiration and None iff T >= R.Expiration; a run whose configuration
\* loaded goes from the branch into the federation exchange iff
\* T >= R.Expiration and into put_metrics iff T < R.Expiration; it is in the
\* exchange only if T >= R.Expiration, and in put_metrics without a federation
\* call only if T < R.Expiration, holding R unmodified.
C1_ExpiryBoundary ==
    \A p \in Procs :
      HoldsWellFormed(file) =>
        LET R == RecordIn(file)
            T == Instant(now_utc[p])
        IN /\ pc[p] \in {"config", "branch"} =>
                /\ (creds[p] = PyDict(R)) <=> (T < ExpiryOf(R))
                /\ (creds[p] = PyNone) <=> (T >= ExpiryOf(R))
           /\ pc[p] = "branch" =>
                /\ (T >= ExpiryOf(R)) <=> ENABLED (Branch(p) /\ pc'[p] = "fed_auth")
                /\ (T < ExpiryOf(R)) <=> ENABLED (Branch(p) /\ pc'[p] = "put_client")
           /\ pc[p] \in InFederation \cup {"save_open"} => T >= ExpiryOf(R)
           /\ (pc[p] \in InPutMetrics \cup {"done"} /\ FromCache(p)) =>
                /\ T < ExpiryOf(R)
                /\ creds[p] = PyDict(R)
                /\ GivenTo(put[p], R)

\* C1 witness: the boundary T = R.Expiration with the federation exchange begun
C1_Witness ==
    \E p \in Procs :
      /\ pc[p] = "fed_auth"
      /\ HoldsWellFormed(file)
      /\ Instant(now_utc[p]) = ExpiryOf(RecordIn(file))

\* C2 (cache transparency on corruption), as claimed: whatever the cache file
\* holds that is no well-formed record, load_credentials returns None and the
\* run never ends in an exception raised over the content of the file.
C2_CorruptionIsAbsence ==
    \A p \in Procs :
      /\ (pc[p] \in {"config", "branch"} /\ ~HoldsWellFormed(file)) => creds[p] = PyNone
      /\ pc[p] = "failed" => err[p].class \notin {"TypeError", "KeyError"}

\* C3 (no use past expiration), as claimed: while put_metrics holds a cached
\* record, the current instant is strictly earlier than its expiration.
C3_NoUsePastExpiration ==
    \A p \in Procs :
      (pc[p] \in InPutMetrics /\ FromCache(p) /\ EXPIRATION \in DOMAIN creds[p].d
         /\ creds[p].d[EXPIRATION].kind = "iso")
        => clock < ExpiryOf(creds[p].d)

\* the run failed in the password-authentication step: the configuration had
\* loaded, no cached record was in hand, and no identity token was obtained
AuthFailed(p) ==
    /\ pc[p] = "failed"
    /\ config[p] # NoConfig
    /\ creds[p] = PyNone
    /\ fed[p].id_token = ""
\* the text of the error names the authentication call or one of its fields
NamesAuthStep(e) ==
    \E i \in 1..Len(e.msg) : e.msg[i] \in {"InitiateAuth", KEY_AUTH_RESULTS, KEY_ID_TOKEN}

\* C4 (no silent partial federation), as claimed: when the authentication step
\* fails, get_id and get_credentials_for_identity are not called and the
\* reported error identifies the authentication step as the one that failed.
C4_AuthFailureIdentified ==
    \A p \in Procs :
      AuthFailed(p) =>
        /\ CountOp(p, "get_id") = 0
        /\ CountOp(p, "get_credentials_for_identity") = 0
        /\ NamesAuthStep(err[p])

\* C4, amended: get_id and get_credentials_for_identity are called only with an
\* identity token in hand; when the authentication step fails, neither is
\* called, nothing is written or published, and the error reported is the one
\* CognitoCredentialError of the whole exchange, "Failed to get Cognito
\* credentials: " followed by the text of the underlying exception.
C4_AuthFailureStopsFederation ==
    \A p \in Procs :
      /\ fed[p].id_token = "" =>
           /\ CountOp(p, "get_id") = 0
           /\ CountOp(p, "get_credentials_for_identity") = 0
      /\ AuthFailed(p) =>
           /\ err[p].class = "CognitoCredentialError"
           /\ Head(err[p].msg) = "Failed to get Cognito credentials: "
           /\ Ops(p) \subseteq {"open_read", "initiate_auth"}

\* C4 witness: initiate_auth was called and the authentication step failed
C4_Witness ==
    \E p \in Procs : AuthFailed(p) /\ "initiate_auth" \in Ops(p)

\* the run found no cache file when it opened it
MissingAtLoad(p) ==
    Len(calls[p]) >= 1 /\ calls[p][1] = Call("open_read", <<"FileNotFoundError">>)
\* the record that carries the tuple t the identity backend returned
RecordOf(t) ==
    [k \in CredKeySet |->
        IF k = EXPIRATION THEN IsoV(t[EXPIRATION].wall - t[EXPIRATION].off, 0)
        ELSE StrV(t[k])]
Holds(f, d) == ParsesToDict(f) /\ RecordIn(f) = d

\* C5 (fresh-credential path): in a run that found no cache file and received
\* the full tuple from the identity backend, the record in hand is that tuple
\* with the expiration in UTC, put_metrics is given exactly its secrets and
\* signs the submission with them, and once the run has ended the cache file
\* holds exactly that record (unless the run ended in SaveCredentialsError).
C5_FreshCredentialPath ==
    \A p \in Procs :
      (MissingAtLoad(p) /\ DOMAIN fed[p].creds = CredKeySet) =>
        LET rec == RecordOf(fed[p].creds) IN
        /\ creds[p] = PyDict(rec)
        /\ pc[p] \in InPutMetrics \cup {"done"} =>
             GivenTo(put[p], rec) /\ Holds(file, rec)
        /\ pc[p] = "done" =>
             /\ Len(sent[p]) = 1
             /\ sent[p][1].AccessKeyId = rec[ACCESS_KEY_ID]
             /\ sent[p][1].SecretKey = rec[SECRET_KEY]
             /\ sent[p][1].SessionToken = rec[SESSION_TOKEN]
        /\ Ended(p) => Holds(file, rec) \/ err[p].class = "SaveCredentialsError"

\* C5 witness: such a run has ended in success with a tuple stamped off UTC
C5_Witness ==
    \E p \in Procs :
      /\ MissingAtLoad(p)
      /\ DOMAIN fed[p].creds = CredKeySet
      /\ fed[p].creds[EXPIRATION].off # 0
      /\ pc[p] = "done"

\* the run holds a record it federated
Federated(p) == DOMAIN fed[p].creds = CredKeySet /\ creds[p].py = "dict"

\* C6 (persistence failure is fatal): a run that federated is in put_metrics or
\* has ended in success only with its record fully written to the cache file;
\* if it has ended and the file does not hold the record, it ended in
\* SaveCredentialsError, having collected and submitted nothing.
C6_PersistenceFailureFatal ==
    \A p \in Procs :
      Federated(p) =>
        /\ pc[p] \in InPutMetrics \cup {"done"} => Holds(file, creds[p].d)
        /\ (Ended(p) /\ ~Holds(file, creds[p].d)) =>
             /\ pc[p] = "failed"
             /\ err[p].class = "SaveCredentialsError"
             /\ Ops(p) \cap PublishOps = {}
             /\ sent[p] = <<>>

\* C6 witness: the write began and failed, and the run ended in SaveCredentialsError
C6_Witness ==
    \E p \in Procs :
      /\ Federated(p)
      /\ "open_write" \in Ops(p)
      /\ ~Holds(file, creds[p].d)
      /\ pc[p] = "failed"
      /\ err[p].class = "SaveCredentialsError"

\* C7 (configuration failure comes first), as claimed: a run that fails over a
\* missing setting has not read the cache file, made no federation call and no
\* publish call.
C7_ConfigurationFirst ==
    \A p \in Procs :
      (pc[p] = "failed" /\ err[p].class = "ValueError") =>
        Ops(p) \cap ({"open_read"} \cup FederationOps \cup PublishOps) = {}

\* C8 (no retry on federation failure): in every run each call of the exchange
\* is made at most once, and a run in which the exchange failed has ended in
\* failure with CognitoCredentialError, having neither opened the cache file
\* for writing nor collected or submitted a metric.
C8_NoRetry ==
    \A p \in Procs :
      /\ \A op \in FederationOps : CountOp(p, op) <= 1
      /\ (pc[p] = "failed" /\ creds[p] = PyNone /\ config[p] # NoConfig) =>
           /\ err[p].class = "CognitoCredentialError"
           /\ "open_write" \notin Ops(p)
           /\ Ops(p) \cap PublishOps = {}
           /\ sent[p] = <<>>
      /\ (pc[p] \in InFederation \/ pc[p] = "save_open") => err[p] = NoErr

\* C8 witness: the exchange failed at its second step, after one initiate_auth
C8_Witness ==
    \E p \in Procs :
      /\ pc[p] = "failed"
      /\ err[p].class = "CognitoCredentialError"
      /\ CountOp(p, "initiate_auth") = 1
      /\ CountOp(p, "get_id") = 1

\* C9 (delivered or failed visibly): a run ends in exactly one of success (no
\* exception) and failure (an exception); a run that has ended ended in success
\* iff the metrics backend accepted exactly one submission from it, signed with
\* the record in hand, which is a cached record whose expiration is later than
\* the instant sampled at the start, or the record federated in this run; no
\* run has more than one submission accepted, and a run that has not ended can
\* always take its next step.
C9_DeliveredOrFailed ==
    \A p \in Procs :
      /\ pc[p] = "done" => err[p] = NoErr
      /\ err[p] # NoErr <=> pc[p] = "failed"
      /\ Len(sent[p]) <= 1
      /\ Ended(p) => (pc[p] = "done" <=> Len(sent[p]) = 1)
      /\ Len(sent[p]) = 1 =>
           /\ pc[p] = "done"
           /\ CountOp(p, "put_metric_data") = 1
           /\ sent[p][1].AccessKeyId = creds[p].d[ACCESS_KEY_ID]
           /\ sent[p][1].SecretKey = creds[p].d[SECRET_KEY]
           /\ sent[p][1].SessionToken = creds[p].d[SESSION_TOKEN]
           /\ IF FromCache(p)
              THEN Instant(now_utc[p]) < ExpiryOf(creds[p].d)
              ELSE Federated(p) /\ creds[p].d = RecordOf(fed[p].creds)
      /\ (pc[p] \notin {"idle", "done", "failed"}) => ENABLED Step(p)

\* C9 witness: a run has ended in success on the cached record
C9_Witness ==
    \E p \in Procs : pc[p] = "done" /\ FromCache(p) /\ Len(sent[p]) = 1

\* the run federated and save_credentials has returned
Saved(p) ==
    /\ Federated(p)
    /\ \/ pc[p] \in InPutMetrics \cup {"done"}
       \/ pc[p] = "failed" /\ err[p].class # "SaveCredentialsError"

\* C10 (persistence round-trip): once save_credentials(R) has returned, the
\* cache file spells exactly R, whatever it held before, and load_credentials
\* at any instant earlier than R.Expiration returns a record equal to R; a
\* later run that opens the saved file before R.Expiration holds exactly R.
C10_RoundTrip ==
    \A p \in Procs :
      /\ Saved(p) =>
           LET R == creds[p].d IN
           /\ IsWellFormed(R) /\ R[EXPIRATION].off = 0
           /\ JsonLoad(file.text).exc = "none"
           /\ JsonLoad(file.text).val = PyDict(R)
           /\ \A t \in 0..MaxTime :
                t < ExpiryOf(R) =>
                  /\ LoadCredentials(file, NowUtc(t)).exc = "none"
                  /\ LoadCredentials(file, NowUtc(t)).val = PyDict(R)
      /\ (pc[p] \in {"config", "branch"} /\ runs[p] >= 2 /\ file.exists
            /\ \E t \in 0..MaxTime : \E o \in Offsets :
                 /\ file.text = JsonDump(RecordOf(Issued(t, o)))
                 /\ Instant(now_utc[p]) < t + Lifetime) =>
           /\ creds[p].py = "dict"
           /\ file.text = JsonDump(creds[p].d)

\* C10 witness: a second run has loaded the record the first run saved
C10_Witness ==
    \E p \in Procs :
      /\ runs[p] = 2
      /\ pc[p] = "config"
      /\ creds[p].py = "dict"
      /\ ACCESS_KEY_ID \in DOMAIN creds[p].d
      /\ creds[p].d[ACCESS_KEY_ID] = StrV("AK1")

\* the i-th credentials handed out went to an earlier run of p, carried all
\* four fields, and the cache file, which the present run of p has not opened
\* for writing, holds exactly their record
PersistedBefore(p, i) ==
    /\ issued[i].by = p
    /\ issued[i].run < runs[p]
    /\ DOMAIN issued[i].creds = CredKeySet
    /\ Holds(file, RecordOf(issued[i].creds))
    /\ "open_write" \notin Ops(p)

\* C11 (re-use across runs): when an earlier run federated and persisted a
\* record R and the file still holds it, a later run that sampled an instant
\* T' < R.Expiration holds exactly R once it has loaded, goes from the branch
\* into put_metrics, gives put_metrics the secrets of R, never enters the
\* federation exchange or save_credentials, and no credentials are handed out
\* to it: the two runs cost one federation.
C11_ReuseAcrossRuns ==
    \A p \in Procs :
      \A i \in 1..Len(issued) :
        (/\ PersistedBefore(p, i)
         /\ pc[p] \notin {"idle", "load"}
         /\ Instant(now_utc[p]) < ExpiryOf(RecordOf(issued[i].creds))) =>
          LET R == RecordOf(issued[i].creds) IN
          /\ creds[p] = PyDict(R)
          /\ FromCache(p)
          /\ pc[p] \notin InFederation \cup {"save_open", "save_write"}
          /\ \A j \in 1..Len(issued) : issued[j].by = p => issued[j].run # runs[p]
          /\ pc[p] = "branch" => ENABLED (Branch(p) /\ pc'[p] = "put_client")
          /\ pc[p] \in InPutMetrics \cup {"done"} => GivenTo(put[p], R)

\* C11 witness: a second run, started at the very instant the first run's
\* record was issued, has ended in success on that record with one federation
\* in all
C11_Witness ==
    \E p \in Procs :
      /\ Len(issued) = 1
      /\ PersistedBefore(p, 1)
      /\ Instant(now_utc[p]) + Lifetime = ExpiryOf(RecordOf(issued[1].creds))
      /\ pc[p] = "done"
      /\ FromCache(p)

\* C14 (metric shape): in a run whose put_metrics has called put_metric_data,
\* that call and the collector's call were each made exactly once, the metric
\* record is named DiskUsage, in Percent, valued at the sample the collector
\* returned and stamped within the run, the namespace is the configured one,
\* and what the backend accepted is one submission of exactly that one record;
\* no run calls the collector or put_metric_data more than once.
C14_MetricShape ==
    \A p \in Procs :
      /\ CountOp(p, "disk_usage") <= 1
      /\ CountOp(p, "put_metric_data") <= 1
      /\ Len(sent[p]) <= 1
      /\ "put_metric_data" \in Ops(p) =>
           /\ CountOp(p, "disk_usage") = 1
           /\ put[p].metric_data.MetricName = "DiskUsage"
           /\ put[p].metric_data.Unit = "Percent"
           /\ put[p].metric_data_value \in DiskSamples
           /\ put[p].metric_data.Value = put[p].metric_data_value
           /\ Instant(now_utc[p]) <= Instant(put[p].metric_data.Timestamp)
           /\ Instant(put[p].metric_data.Timestamp) <= clock
           /\ put[p].cw_namespace = config[p]["cw_namespace"]
           /\ config[p]["cw_namespace"] = FullEnv[EnvName("cw_namespace")]
           /\ calls[p][Len(calls[p])] =
                Call("put_metric_data", <<config[p]["cw_namespace"]>>)
      /\ pc[p] = "done" => Len(sent[p]) = 1
      /\ sent[p] # <<>> =>
           /\ pc[p] = "done"
           /\ sent[p][1].Namespace = config[p]["cw_namespace"]
           /\ sent[p][1].MetricData = <<put[p].metric_data>>

\* C14 witness: a run has ended with the backend holding its one submission, a
\* DiskUsage record of 57 percent
C14_Witness ==
    \E p \in Procs :
      /\ pc[p] = "done"
      /\ Len(sent[p]) = 1
      /\ Len(sent[p][1].MetricData) = 1
      /\ sent[p][1].MetricData[1].Value = 57
      /\ put[p].metric_data_value = 57

\* the federation calls of the run, in the order they were made
FederationCalls(p) == SelectSeq(calls[p], LAMBDA c : c.op \in FederationOps)
FederationOrder == <<"initiate_auth", "get_id", "get_credentials_for_identity">>
\* the login proof a federation call carried: the last three of its arguments
ProofOf(c) == SubSeq(c.a, Len(c.a) - 2, Len(c.a))

\* C15 (one-shot ordered exchange, one failure class): the federation calls a
\* run has made are a prefix of initiate_auth, get_id,
\* get_credentials_for_identity; get_id and get_credentials_for_identity carry
\* the same proof, the provider prefix with the configured user pool and the
\* id token initiate_auth returned; a step that yields no id token, identity or
\* full credentials is followed by no later step; a run that ended with its
\* configuration loaded and no record in hand ended in CognitoCredentialError
\* and opened no file and published nothing; a record in hand after federation
\* carries all four fields.
C15_OneShotExchange ==
    \A p \in Procs :
      LET F == FederationCalls(p) IN
      /\ Len(F) <= 3
      /\ \A i \in 1..Len(F) : F[i].op = FederationOrder[i]
      /\ \A i \in 2..Len(F) :
           /\ fed[p].id_token = "T1"
           /\ ProofOf(F[i]) = <<"cognito-idp.us-west-2.amazonaws.com/", config[p]["user_pool_id"], "T1">>
           /\ config[p]["user_pool_id"] = FullEnv[EnvName("user_pool_id")]
      /\ fed[p].id_token = "" => Len(F) <= 1
      /\ fed[p].identity_id = "" => Len(F) <= 2
      /\ (pc[p] = "failed" /\ config[p] # NoConfig /\ creds[p] = PyNone) =>
           /\ err[p].class = "CognitoCredentialError"
           /\ Ops(p) \cap ({"open_write"} \cup PublishOps) = {}
           /\ sent[p] = <<>>
      /\ err[p].class = "CognitoCredentialError" =>
           /\ creds[p] = PyNone
           /\ pc[p] = "failed"
      /\ (creds[p].py = "dict" /\ ~FromCache(p)) =>
           /\ Len(F) = 3
           /\ IsWellFormed(creds[p].d)
           /\ DOMAIN fed[p].creds = CredKeySet
           /\ creds[p].d = RecordOf(fed[p].creds)

\* C15 witness: get_credentials_for_identity answered with a field missing
\* after the first two steps succeeded, and the run ended in
\* CognitoCredentialError with no record in hand
C15_Witness ==
    \E p \in Procs :
      /\ Len(FederationCalls(p)) = 3
      /\ pc[p] = "failed"
      /\ err[p].class = "CognitoCredentialError"
      /\ creds[p] = PyNone
      /\ DOMAIN fed[p].creds = CredKeySet \ {SESSION_TOKEN}

\* C17 (cache file frame): every step that changes the cache file is a step of
\* a run inside save_credentials whose own federation exchange returned a full
\* record; a run on the fast path, a run whose configuration did not load and
\* a run whose federation failed are never such a run, so none of their steps,
\* publishing included, changes the file.
C17_CacheFileFrame ==
    [][file' # file =>
         \E p \in Procs :
           /\ pc[p] \in {"save_open", "save_write"}
           /\ pc'[p] # pc[p]
           /\ ~FromCache(p)
           /\ Len(FederationCalls(p)) = 3
           /\ config[p] # NoConfig
           /\ Federated(p)
           /\ err[p].class = "none"]_vars

\* C17 witness: a run on the fast path has failed in publishing, nothing has
\* been issued or opened for writing, and the file holds a well-formed record
C17_Witness ==
    \E p \in Procs :
      /\ pc[p] = "failed"
      /\ err[p].class = "SendMetricError"
      /\ FromCache(p)
      /\ issued = <<>>
      /\ HoldsWellFormed(file)
      /\ creds[p] = PyDict(RecordIn(file))

\* the exceptions put_metrics raises
PublishErrors == {"CreateCognitoclientError", "GetDiskUsageError", "SendMetricError"}
\* call number j of the run was made after a call of operation op
After(p, j, op) == \E i \in 1..(j - 1) : calls[p][i].op = op

InSave(p) == pc[p] = "save_write"
\* the step is p's call of load_credentials
Loads(p) == pc[p] = "load" /\ pc'[p] # "load"

\* C12 (atomic-enough write): when a run calls load_credentials while another
\* run is inside save_credentials, the file it reads is whole: the previous
\* record, which the processes found at the start, or the complete record the
\* other run is saving.
C12_ReaderSeesWholeFile ==
    [][\A p \in Procs : \A q \in Procs \ {p} :
         (Loads(p) /\ InSave(q)) =>
           file \in ConcFiles \cup {FileWith(JsonDump(creds[q].d))}]_vars

\* the run loaded a file with no usable record, its federation exchange has
\* returned a record, and it has not yet opened the file to save it
AboutToSave(p) == pc[p] = "save_open" /\ Federated(p) /\ "open_write" \notin Ops(p)

\* C13 (guarded load/replace): the load-federate-save sequences of two runs
\* never overlap: no run loads the file between another run's load and that
\* run's save, so two runs are never both holding a freshly federated record
\* that neither has saved, and two runs that started on the same stale file
\* make one federation between them.
C13_GuardedLoadReplace ==
    \A p \in Procs : \A q \in Procs \ {p} : ~(AboutToSave(p) /\ AboutToSave(q))

\* C16 (last save wins): whenever a run's save_credentials returns, the cache
\* file holds exactly that run's record, whatever another run wrote or was
\* issued before; so of two runs that both federated, the one that saves last
\* leaves its record, be it the older one.
C16_LastSaveWins ==
    [][\A p \in Procs :
         (pc[p] = "save_write" /\ pc'[p] = "put_client") =>
           /\ Holds(file', creds[p].d)
           /\ creds[p].d = RecordOf(fed[p].creds)]_vars

\* C16 witness: both runs federated and ended in success, and the file holds
\* the record issued first, which expires before the record issued second
C16_Witness ==
    /\ \A p \in Procs : pc[p] = "done" /\ Federated(p)
    /\ Len(issued) = 2
    /\ issued[1].by # issued[2].by
    /\ DOMAIN issued[1].creds = CredKeySet
    /\ DOMAIN issued[2].creds = CredKeySet
    /\ ExpiryOf(RecordOf(issued[1].creds)) < ExpiryOf(RecordOf(issued[2].creds))
    /\ Holds(file, RecordOf(issued[1].creds))
    /\ creds[issued[1].by].d = RecordOf(issued[1].creds)
====
